---- MODULE Spec2Model ----
(***************************************************************************)
(* Model of src/stirling/connection_tracker.cc: DataStream (the per        *)
(* direction buffer of socket data events) and ConnectionTracker (the per  *)
(* connection state machine), with the tracker registry of the socket      *)
(* trace connector as its tests in socket_trace_connector_test.cc drive it.*)
(***************************************************************************)
EXTENDS Integers, Sequences, FiniteSets, TLC

(***************************************************************************)
(* Bounds of the model.                                                    *)
(***************************************************************************)
\* Number of protocol messages on the wire of one direction.
NumMsgs == 2
\* Largest number of data events the wire bytes of one direction are cut into.
MaxEvents == 3
\* ExtractMessages is not explored further once the parsed queue is this long.
MaxQueue == 3
\* seq_nums of the data events a tracker receives are below this.
MaxSeqNum == 2
\* A tracker receives no more data events than this.
MaxDataEvents == 2
\* The steady clock is not advanced beyond this.
MaxNow == 2
\* Generations of the connection's (pid, fd) are 1..MaxGeneration.
MaxGeneration == 2

(***************************************************************************)
(* Wire format of the parser plug-in. The protocol grammars are not part   *)
(* of connection_tracker.cc; the model uses a framing in which message k   *)
(* is the MsgLen bytes <<k,1>> .. <<k,MsgLen>>, so that a message can      *)
(* straddle two events and a message tail cannot be parsed as a message.   *)
(***************************************************************************)
MsgLen == 2

MessageTypes == {"HTTPMessage", "Frame"}

monostate == "monostate"

Min(S) == CHOOSE x \in S : \A y \in S : x <= y

RECURSIVE SumSeq(_)
SumSeq(s) == IF s = <<>> THEN 0 ELSE Head(s) + SumSeq(Tail(s))

RECURSIVE Combine(_)
\* EventParser::Combine: the views appended to the parser, concatenated.
Combine(views) == IF views = <<>> THEN <<>> ELSE Head(views) \o Combine(Tail(views))

\* The bytes of the messages 1..NumMsgs back to back.
WireBytes == [p \in 1..(NumMsgs * MsgLen) |->
                <<((p - 1) \div MsgLen) + 1, ((p - 1) % MsgLen) + 1>>]

\* The ways of cutting the wire bytes into 1..MaxEvents non-empty events:
\* the sizes of the events, in seq_num order.
EventSizes == UNION {{s \in [1..n -> 1..Len(WireBytes)] : SumSeq(s) = Len(WireBytes)} :
                       n \in 1..MaxEvents}

\* The events of one cut, keyed by seq_num 0..N-1 (InitRecvEvent numbers
\* the events of a direction 0, 1, 2, ... in the order of the wire bytes).
EventsOfSizes(sizes) ==
    [q \in 0..(Len(sizes) - 1) |->
        SubSeq(WireBytes, SumSeq(SubSeq(sizes, 1, q)) + 1, SumSeq(SubSeq(sizes, 1, q + 1)))]

\* A wire of one message more, on which an event that follows the first one
\* can hold a whole message and the head of the next.
LongWireBytes == [p \in 1..((NumMsgs + 1) * MsgLen) |->
                    <<((p - 1) \div MsgLen) + 1, ((p - 1) % MsgLen) + 1>>]

LongEventSizes ==
    UNION {{s \in [1..n -> 1..Len(LongWireBytes)] : SumSeq(s) = Len(LongWireBytes)} :
             n \in 1..MaxEvents}

LongEventsOfSizes(sizes) ==
    [q \in 0..(Len(sizes) - 1) |->
        SubSeq(LongWireBytes, SumSeq(SubSeq(sizes, 1, q)) + 1,
               SumSeq(SubSeq(sizes, 1, q + 1)))]

(***************************************************************************)
(* The parser (EventParser<T>), as the DataStream uses it.                 *)
(***************************************************************************)
\* TRUE iff a complete message starts at byte position pos (0-based) of buf.
MessageAt(buf, pos) ==
    /\ pos + MsgLen <= Len(buf)
    /\ \A i \in 1..MsgLen : buf[pos + i] = <<buf[pos + 1][1], i>>

RECURSIVE Parse(_, _, _)
\* Parse(type, buf, messages): complete messages from pos on are appended to
\* out; parsing stops at the first byte that does not start a complete message.
Parse(buf, pos, out) ==
    IF MessageAt(buf, pos)
    THEN Parse(buf, pos + MsgLen, Append(out, buf[pos + 1][1]))
    ELSE [messages |-> out, end_position |-> pos]

RECURSIVE Convert(_, _, _)
\* A byte position of the concatenated buffer as a BufferPosition: the index
\* of the appended view it falls in and the offset within that view.
Convert(views, i, pos) ==
    IF i > Len(views) THEN [seq_num |-> Len(views), offset |-> 0]
    ELSE IF pos < Len(views[i]) THEN [seq_num |-> i - 1, offset |-> pos]
    ELSE Convert(views, i + 1, pos - Len(views[i]))

\* EventParser<T>::ParseMessages on the appended views: the messages to
\* append to the queue and the end position.
ParseMessages(views) ==
    LET result == Parse(Combine(views), 0, <<>>)
    IN  [messages |-> result.messages,
         end_position |-> Convert(views, 1, result.end_position)]

(***************************************************************************)
(* DataStream                                                              *)
(***************************************************************************)
\* A DataStream after construction.
NewDataStream ==
    [events_ |-> <<>>, messages_ |-> [holds |-> monostate, deque |-> <<>>], offset_ |-> 0]

\* SocketDataEvent as the DataStream reads it.
DataEvent(msg, ts) ==
    [msg |-> msg, attr |-> [msg_size |-> Len(msg), timestamp_ns |-> ts]]

\* AddEvent that replaces an existing entry (std::map::insert_or_assign).
AddEvent_Overwrite(ds, seq_num, event) ==
    [ds EXCEPT !.events_ = [k \in (DOMAIN ds.events_) \cup {seq_num} |->
                               IF k = seq_num THEN event ELSE ds.events_[k]]]

\* DataStream::AddEvent: std::map::emplace keeps an existing entry.
AddEvent(ds, seq_num, event) ==
    IF seq_num \in DOMAIN ds.events_
    THEN ds
    ELSE [ds EXCEPT !.events_ = [k \in (DOMAIN ds.events_) \cup {seq_num} |->
                                    IF k = seq_num THEN event ELSE ds.events_[k]]]

\* events_.begin()->first, line 191. On an empty map begin() is end(), and
\* reading through it is undefined: a build reads some value, which the loop
\* never uses because it does not run, or stops at the dereference (checked
\* iterators).
BeginDereference(events) ==
    IF DOMAIN events = {} THEN {"value", "stop"} ELSE {"value"}

RECURSIVE RunEnd(_, _)
\* The loop of ExtractMessages: next_seq_num when the loop leaves the map.
RunEnd(events, next_seq_num) ==
    IF next_seq_num \in DOMAIN events THEN RunEnd(events, next_seq_num + 1) ELSE next_seq_num

\* The loop without its break at a discontinuity: every buffered event is
\* submitted, in key order.
SubmittedSeqNums_NoBreak(events) ==
    [i \in 1..Cardinality(DOMAIN events) |->
        CHOOSE k \in DOMAIN events : Cardinality({j \in DOMAIN events : j < k}) = i - 1]

\* The seq_nums whose events the loop submits to the parser, in order.
SubmittedSeqNums(events) ==
    IF DOMAIN events = {} THEN <<>>
    ELSE LET first == Min(DOMAIN events)
         IN  [i \in 1..(RunEnd(events, first) - first) |-> first + i - 1]

\* The view of one submitted event: the first one is cut at offset_.
View(ds, seq_num) ==
    LET event == ds.events_[seq_num]
    IN  IF seq_num = Min(DOMAIN ds.events_) /\ ds.offset_ # 0
        THEN SubSeq(event.msg, ds.offset_ + 1, event.attr.msg_size)
        ELSE event.msg

\* The first n entries of the map, in key order (std::advance from begin()).
FirstKeys(events, n) ==
    {k \in DOMAIN events : Cardinality({j \in DOMAIN events : j < k}) < n}

\* An offset_ that adds the parser's offset to the one before the call.
NewOffset_Accumulate(orig_offset, end_position) == orig_offset + end_position.offset

\* The value line 235 stores in offset_.
NewOffset(orig_offset, end_position) == end_position.offset

\* DataStream::ExtractMessages<T>: the stream after the call, whether a CHECK
\* ended the process, and the seq_nums submitted to the parser.
ExtractMessages(ds, T) ==
    LET orig_offset == ds.offset_
        submitted == SubmittedSeqNums(ds.events_)
        \* CHECK(offset_ < event.attr.msg_size), line 204
        check_size == \/ submitted = <<>>
                      \/ ds.offset_ = 0
                      \/ ds.offset_ < ds.events_[submitted[1]].attr.msg_size
        views == IF check_size THEN [i \in 1..Len(submitted) |-> View(ds, submitted[i])]
                 ELSE <<>>
        \* offset_ after the loop: cleared when the first event was cut.
        loop_offset == IF submitted = <<>> THEN ds.offset_ ELSE 0
        \* CHECK(holds monostate or deque<T>), line 214
        check_type == ds.messages_.holds \in {monostate, T}
        parse_result == ParseMessages(views)
        \* CHECK_EQ(end_position.offset, orig_offset), lines 227-229
        check_progress == ~(loop_offset # 0 /\ parse_result.end_position.seq_num = 0)
                          \/ parse_result.end_position.offset = orig_offset
        erased == FirstKeys(ds.events_, parse_result.end_position.seq_num)
    IN  IF ~(check_size /\ check_type /\ check_progress)
        THEN [ds |-> ds, aborted |-> TRUE, submitted |-> submitted]
        ELSE [ds |-> [events_ |-> [k \in (DOMAIN ds.events_) \ erased |-> ds.events_[k]],
                      messages_ |-> [holds |-> T,
                                     deque |-> ds.messages_.deque \o parse_result.messages],
                      offset_ |-> NewOffset(orig_offset, parse_result.end_position)],
              aborted |-> FALSE,
              submitted |-> submitted]

\* DataStream::Reset
Reset(ds) ==
    [events_ |-> <<>>, messages_ |-> [holds |-> monostate, deque |-> <<>>], offset_ |-> 0]

\* DataStream::Empty<T>
Empty(ds, T) ==
    /\ DOMAIN ds.events_ = {}
    /\ \/ ds.messages_.holds = monostate
       \/ ds.messages_.deque = <<>>

(***************************************************************************)
(* ConnectionTracker                                                       *)
(***************************************************************************)
\* Countdown a close event starts (ConnectionTracker::kDeathCountdownIters,
\* the default argument of MarkForDeath). Its value is set in
\* connection_tracker.h; the model takes a small one.
kDeathCountdownIters == 3

\* ConnectionTracker::InactivityDuration(), in clock units (the tests set 1 s).
InactivityDuration == 1

kProtocolUnknown == "kProtocolUnknown"
kProtocolHTTP == "kProtocolHTTP"
kProtocolHTTP2 == "kProtocolHTTP2"
kRoleUnknown == "kRoleUnknown"
kRoleRequestor == "kRoleRequestor"
kRoleResponder == "kRoleResponder"

kEventTypeSyscallWriteEvent == "kEventTypeSyscallWriteEvent"
kEventTypeSyscallSendEvent == "kEventTypeSyscallSendEvent"
kEventTypeSyscallReadEvent == "kEventTypeSyscallReadEvent"
kEventTypeSyscallRecvEvent == "kEventTypeSyscallRecvEvent"
kEventTypeUnknown == "kEventTypeUnknown"

\* A ConnectionTracker after construction.
NewConnectionTracker ==
    [conn_id_ |-> [pid |-> 0, pid_start_time_ns |-> 0, fd |-> 0, generation |-> 0],
     traffic_class_ |-> [protocol |-> kProtocolUnknown, role |-> kRoleUnknown],
     open_info_ |-> [timestamp_ns |-> 0, remote_addr |-> "-", remote_port |-> -1],
     close_info_ |-> [timestamp_ns |-> 0, send_seq_num |-> 0, recv_seq_num |-> 0],
     send_data_ |-> NewDataStream,
     recv_data_ |-> NewDataStream,
     num_send_events_ |-> 0,
     num_recv_events_ |-> 0,
     last_bpf_timestamp_ns_ |-> 0,
     last_update_timestamp_ |-> 0,
     death_countdown_ |-> -1]

\* The DCHECKs of SetPID hold for conn_id.
SetPIDChecks(t, conn_id) ==
    /\ t.conn_id_.pid = 0 \/ t.conn_id_.pid = conn_id.pid
    /\ t.conn_id_.pid_start_time_ns = 0
         \/ t.conn_id_.pid_start_time_ns = conn_id.pid_start_time_ns
    /\ t.conn_id_.fd = 0 \/ t.conn_id_.fd = conn_id.fd
    /\ t.conn_id_.generation = 0 \/ t.conn_id_.generation = conn_id.generation

\* ConnectionTracker::SetPID: the four fields are assigned whatever the checks say.
SetPID(t, conn_id) ==
    [t EXCEPT !.conn_id_ = [pid |-> conn_id.pid,
                            pid_start_time_ns |-> conn_id.pid_start_time_ns,
                            fd |-> conn_id.fd,
                            generation |-> conn_id.generation]]

\* The DCHECKs of SetTrafficClass hold: line 95 on the stored class; lines
\* 100-103 compare the argument with itself.
SetTrafficClassChecks(t, traffic_class) ==
    /\ (t.traffic_class_.protocol = kProtocolUnknown) = (t.traffic_class_.role = kRoleUnknown)
    /\ (t.traffic_class_.protocol # kProtocolUnknown /\ traffic_class.protocol # kProtocolUnknown)
         => /\ traffic_class.protocol = traffic_class.protocol
            /\ traffic_class.role = traffic_class.role

\* SetTrafficClass that assigns the class of every event.
SetTrafficClass_Overwrite(t, traffic_class) ==
    [t EXCEPT !.traffic_class_ = traffic_class]

\* ConnectionTracker::SetTrafficClass
SetTrafficClass(t, traffic_class) ==
    IF t.traffic_class_.protocol = kProtocolUnknown
    THEN [t EXCEPT !.traffic_class_ = traffic_class]
    ELSE t

\* UpdateTimestamps that records the bpf timestamp but not the steady clock.
UpdateTimestamps_NoClock(t, bpf_timestamp, clock) ==
    [t EXCEPT !.last_bpf_timestamp_ns_ = IF @ >= bpf_timestamp THEN @ ELSE bpf_timestamp]

\* ConnectionTracker::UpdateTimestamps; steady_clock::now() reads clock.
UpdateTimestamps(t, bpf_timestamp, clock) ==
    [t EXCEPT !.last_bpf_timestamp_ns_ = IF @ >= bpf_timestamp THEN @ ELSE bpf_timestamp,
              !.last_update_timestamp_ = clock]

\* MarkForDeath that assigns the new countdown whatever the current one.
MarkForDeath_Overwrite(t, countdown) ==
    [t EXCEPT !.death_countdown_ = countdown]

\* MarkForDeath that keeps the larger of the two countdowns of a zombie.
MarkForDeath_Max(t, countdown) ==
    IF t.death_countdown_ >= 0
    THEN [t EXCEPT !.death_countdown_ = IF @ >= countdown THEN @ ELSE countdown]
    ELSE [t EXCEPT !.death_countdown_ = countdown]

\* ConnectionTracker::MarkForDeath
MarkForDeath(t, countdown) ==
    IF t.death_countdown_ >= 0
    THEN [t EXCEPT !.death_countdown_ = IF @ <= countdown THEN @ ELSE countdown]
    ELSE [t EXCEPT !.death_countdown_ = countdown]

\* ConnectionTracker::IsZombie
IsZombie(t) == t.death_countdown_ >= 0

\* ConnectionTracker::ReadyForDestruction
ReadyForDestruction(t) == t.death_countdown_ = 0

\* ConnectionTracker::AllEventsReceived
AllEventsReceived(t) ==
    /\ t.close_info_.timestamp_ns # 0
    /\ t.num_send_events_ = t.close_info_.send_seq_num
    /\ t.num_recv_events_ = t.close_info_.recv_seq_num

\* ConnectionTracker::req_data: "send_data_", "recv_data_" or "nullptr".
req_data(t) ==
    CASE t.traffic_class_.role = kRoleRequestor -> "send_data_"
      [] t.traffic_class_.role = kRoleResponder -> "recv_data_"
      [] OTHER -> "nullptr"

\* resp_data that returns the stream of req_data.
resp_data_AsReq(t) == req_data(t)

\* ConnectionTracker::resp_data
resp_data(t) ==
    CASE t.traffic_class_.role = kRoleRequestor -> "recv_data_"
      [] t.traffic_class_.role = kRoleResponder -> "send_data_"
      [] OTHER -> "nullptr"

\* ConnectionTracker::AddConnOpenEvent. conn_info.addr is the outcome of
\* ParseSockAddr: ok with ip and port, or not ok.
AddConnOpenEvent(t, conn_info, clock) ==
    LET t1 == UpdateTimestamps(t, conn_info.timestamp_ns, clock)
        t2 == SetTrafficClass(t1, conn_info.traffic_class)
        t3 == SetPID(t2, conn_info.conn_id)
    IN  IF conn_info.addr.ok
        THEN [t3 EXCEPT !.open_info_ = [timestamp_ns |-> conn_info.timestamp_ns,
                                        remote_addr |-> conn_info.addr.ip,
                                        remote_port |-> conn_info.addr.port]]
        ELSE [t3 EXCEPT !.open_info_.timestamp_ns = conn_info.timestamp_ns]

\* AddConnCloseEvent that keeps the close_info_ of the first close event.
AddConnCloseEvent_KeepFirst(t, conn_info, clock) ==
    LET t1 == UpdateTimestamps(t, conn_info.timestamp_ns, clock)
        t2 == SetPID(t1, conn_info.conn_id)
        t3 == IF t2.close_info_.timestamp_ns # 0 THEN t2
              ELSE [t2 EXCEPT !.close_info_ = [timestamp_ns |-> conn_info.timestamp_ns,
                                               send_seq_num |-> conn_info.wr_seq_num,
                                               recv_seq_num |-> conn_info.rd_seq_num]]
    IN  MarkForDeath(t3, kDeathCountdownIters)

\* ConnectionTracker::AddConnCloseEvent
AddConnCloseEvent(t, conn_info, clock) ==
    LET t1 == UpdateTimestamps(t, conn_info.timestamp_ns, clock)
        t2 == SetPID(t1, conn_info.conn_id)
        t3 == [t2 EXCEPT !.close_info_ = [timestamp_ns |-> conn_info.timestamp_ns,
                                          send_seq_num |-> conn_info.wr_seq_num,
                                          recv_seq_num |-> conn_info.rd_seq_num]]
    IN  MarkForDeath(t3, kDeathCountdownIters)

\* AddDataEvent that counts a send event in both counters.
AddDataEvent_CountBoth(t, event, clock) ==
    LET t1 == UpdateTimestamps(t, event.attr.timestamp_ns, clock)
        t2 == SetPID(t1, event.attr.conn_id)
        t3 == SetTrafficClass(t2, event.attr.traffic_class)
    IN  CASE event.attr.event_type \in {kEventTypeSyscallWriteEvent, kEventTypeSyscallSendEvent} ->
               [t3 EXCEPT !.send_data_ = AddEvent(@, event.attr.seq_num, event),
                          !.num_send_events_ = @ + 1,
                          !.num_recv_events_ = @ + 1]
          [] event.attr.event_type \in {kEventTypeSyscallReadEvent, kEventTypeSyscallRecvEvent} ->
               [t3 EXCEPT !.recv_data_ = AddEvent(@, event.attr.seq_num, event),
                          !.num_recv_events_ = @ + 1]
          [] OTHER -> t3

\* ConnectionTracker::AddDataEvent
AddDataEvent(t, event, clock) ==
    LET t1 == UpdateTimestamps(t, event.attr.timestamp_ns, clock)
        t2 == SetPID(t1, event.attr.conn_id)
        t3 == SetTrafficClass(t2, event.attr.traffic_class)
    IN  CASE event.attr.event_type \in {kEventTypeSyscallWriteEvent, kEventTypeSyscallSendEvent} ->
               [t3 EXCEPT !.send_data_ = AddEvent(@, event.attr.seq_num, event),
                          !.num_send_events_ = @ + 1]
          [] event.attr.event_type \in {kEventTypeSyscallReadEvent, kEventTypeSyscallRecvEvent} ->
               [t3 EXCEPT !.recv_data_ = AddEvent(@, event.attr.seq_num, event),
                          !.num_recv_events_ = @ + 1]
          [] OTHER -> t3

\* HandleInactivity that flushes the send stream only.
HandleInactivity_SendOnly(t, fd_exists) ==
    IF ~fd_exists
    THEN MarkForDeath(t, 0)
    ELSE [t EXCEPT !.send_data_ = Reset(@)]

\* HandleInactivity with the test of the fd file inverted.
HandleInactivity_Inverted(t, fd_exists) ==
    IF fd_exists
    THEN MarkForDeath(t, 0)
    ELSE [t EXCEPT !.send_data_ = Reset(@), !.recv_data_ = Reset(@)]

\* ConnectionTracker::HandleInactivity; fd_exists is whether /proc/<pid>/fd/<fd> exists.
HandleInactivity(t, fd_exists) ==
    IF ~fd_exists
    THEN MarkForDeath(t, 0)
    ELSE [t EXCEPT !.send_data_ = Reset(@), !.recv_data_ = Reset(@)]

\* The condition of line 159.
Inactive(t, clock) == clock > t.last_update_timestamp_ + InactivityDuration

\* IterationTick that leaves the countdown alone.
IterationTick_NoDecrement(t, clock, fd_exists) ==
    IF Inactive(t, clock) THEN HandleInactivity(t, fd_exists) ELSE t

\* ConnectionTracker::IterationTick
IterationTick(t, clock, fd_exists) ==
    LET t1 == IF t.death_countdown_ > 0 THEN [t EXCEPT !.death_countdown_ = @ - 1] ELSE t
    IN  IF Inactive(t1, clock) THEN HandleInactivity(t1, fd_exists) ELSE t1

(***************************************************************************)
(* State.                                                                  *)
(***************************************************************************)
VARIABLES
    stream,        \* one DataStream driven directly (AddEvent, ExtractMessages, Reset)
    payload,       \* the data events of the stream's direction, seq_num -> bytes
    aborted,       \* a CHECK of ExtractMessages failed: the process is gone
    added,         \* the seq_nums AddEvent was called with so far
    redelivered,   \* AddEvent was called again with a seq_num it had before
    was_reset,     \* Reset was called on the stream
    last_op,       \* the last call on the stream
    msgs,          \* the seq_nums of the events the last ExtractMessages submitted
    materialized,  \* the message types the stream has held a queue of
    tracker,       \* one ConnectionTracker
    now,           \* std::chrono::steady_clock::now()
    dcheck_failed, \* a DCHECK of SetPID or SetTrafficClass did not hold
    ingested,      \* the send and recv seq_nums and the close event the tracker was given
    first_mark,    \* the MarkForDeath that made the tracker a zombie, and the ticks since
    last_call,     \* the last call on the tracker
    last_tick,     \* the IterationTick that was the last call on the tracker: the
                   \* countdown before it, whether the tracker was inactive, whether
                   \* /proc/<pid>/fd/<fd> existed, whether a data stream held events
    event_at,      \* the clock when the tracker last ingested an event, -1 before
    offered,       \* the conn_id and traffic_class of the event that was the last call
                   \* on the tracker
    registered,    \* the tracker is in the registry of the connector
    since_close,   \* the TransferData calls since a close event reached an alive tracker
    trackers,      \* the registry's trackers of one (pid, fd), by generation
    present,       \* the generations that have a tracker in the registry
    outranked,     \* per generation: the TransferData calls its tracker went through,
                   \* counted from the first that found a higher generation present
    buried         \* the generations whose tracker was removed without a close event

stream_vars == <<stream, payload, aborted, added, redelivered, was_reset, last_op, msgs,
                 materialized>>

tracker_vars == <<tracker, now, dcheck_failed, ingested, first_mark, last_call, last_tick,
                  event_at, offered>>

registry_vars == <<registered, since_close>>

generation_vars == <<trackers, present, outranked, buried>>

vars == <<stream_vars, tracker_vars, registry_vars, generation_vars>>

\* The last call on the tracker was no event. A close event carries a conn_id
\* and no traffic_class.
NoOffer ==
    [conn_id |-> [pid |-> 0, pid_start_time_ns |-> 0, fd |-> 0, generation |-> 0],
     traffic_class |-> [protocol |-> kProtocolUnknown, role |-> kRoleUnknown]]

\* No IterationTick was the last call on the tracker.
NoTick == [before |-> -1, inactive |-> FALSE, fd_exists |-> TRUE, buffered |-> FALSE]

StreamStart ==
    /\ stream = NewDataStream
    /\ aborted = FALSE
    /\ added = {}
    /\ redelivered = FALSE
    /\ was_reset = FALSE
    /\ last_op = "none"
    /\ msgs = <<>>
    /\ materialized = {}

TrackerStart ==
    /\ tracker = NewConnectionTracker
    /\ now = 0
    /\ dcheck_failed = FALSE
    /\ ingested = [send |-> {}, recv |-> {}, close |-> FALSE]
    /\ first_mark = [countdown |-> -1, ticks |-> 0, disturbed |-> FALSE]
    /\ last_call = [op |-> "none", countdown |-> -1]
    /\ last_tick = NoTick
    /\ event_at = -1
    /\ offered = NoOffer

RegistryStart ==
    /\ registered = FALSE
    /\ since_close = [ticks |-> -1, timed_out |-> FALSE]
    /\ trackers = [g \in 1..MaxGeneration |-> NewConnectionTracker]
    /\ present = {}
    /\ outranked = [g \in 1..MaxGeneration |-> -1]
    /\ buried = {}

(***************************************************************************)
(* The DataStream on its own.                                              *)
(***************************************************************************)
StreamInit ==
    /\ StreamStart
    /\ payload \in {EventsOfSizes(s) : s \in EventSizes}
    /\ TrackerStart
    /\ RegistryStart

\* AddEvent(seq_num, event) with an event of the direction; a seq_num that
\* was delivered before comes again with a later timestamp.
StreamAddEvent(seq_num) ==
    /\ ~aborted
    /\ seq_num \in DOMAIN payload
    /\ stream' = AddEvent(stream, seq_num,
                          DataEvent(payload[seq_num], IF seq_num \in added THEN 2 ELSE 1))
    /\ added' = added \cup {seq_num}
    /\ redelivered' = (redelivered \/ seq_num \in added)
    /\ last_op' = "AddEvent"
    /\ UNCHANGED <<payload, aborted, was_reset, msgs, materialized, tracker_vars, registry_vars,
                   generation_vars>>

StreamExtractMessages(T) ==
    /\ ~aborted
    /\ Len(stream.messages_.deque) < MaxQueue
    /\ \E outcome \in BeginDereference(stream.events_) :
         LET r == IF outcome = "stop"
                  THEN [ds |-> stream, aborted |-> TRUE, submitted |-> <<>>]
                  ELSE ExtractMessages(stream, T)
         IN  /\ stream' = r.ds
             /\ aborted' = r.aborted
             /\ msgs' = r.submitted
             /\ materialized' = IF r.aborted THEN materialized ELSE materialized \cup {T}
    /\ last_op' = "ExtractMessages"
    /\ UNCHANGED <<payload, added, redelivered, was_reset, tracker_vars, registry_vars,
                   generation_vars>>

StreamReset ==
    /\ ~aborted
    /\ stream' = Reset(stream)
    /\ was_reset' = TRUE
    /\ last_op' = "Reset"
    /\ UNCHANGED <<payload, aborted, added, redelivered, msgs, materialized, tracker_vars,
                   registry_vars, generation_vars>>

StreamNext ==
    \/ \E seq_num \in 0..(MaxEvents - 1) : StreamAddEvent(seq_num)
    \/ \E T \in MessageTypes : StreamExtractMessages(T)
    \/ StreamReset

SpecStream == StreamInit /\ [][StreamNext]_vars

\* The DataStream with the events of the longer wire.
LongStreamInit ==
    /\ StreamStart
    /\ payload \in {LongEventsOfSizes(s) : s \in LongEventSizes}
    /\ TrackerStart
    /\ RegistryStart

SpecLongStream == LongStreamInit /\ [][StreamNext]_vars

(***************************************************************************)
(* Events given to a tracker.                                              *)
(***************************************************************************)
\* The connection of the tests: kPID, kFD, first generation.
TheConnId == [pid |-> 12345, pid_start_time_ns |-> 0, fd |-> 3, generation |-> 1]

HTTPRequestor == [protocol |-> kProtocolHTTP, role |-> kRoleRequestor]

\* The bytes of message k, whole.
WholeMessage(k) == [i \in 1..MsgLen |-> <<k, i>>]

\* conn_info_t of an open event (InitConn).
OpenConnInfo(ts) ==
    [conn_id |-> TheConnId, timestamp_ns |-> ts, traffic_class |-> HTTPRequestor,
     addr |-> [ok |-> TRUE, ip |-> "0.0.0.0", port |-> 0]]

\* conn_info_t of a close event (InitClose).
CloseConnInfo(ts, wr_seq_num, rd_seq_num) ==
    [conn_id |-> TheConnId, timestamp_ns |-> ts, wr_seq_num |-> wr_seq_num,
     rd_seq_num |-> rd_seq_num]

\* SocketDataEvent (InitDataEvent): event seq_num of its direction carries
\* message seq_num + 1.
SocketDataEvent(event_type, seq_num, ts) ==
    [attr |-> [conn_id |-> TheConnId, traffic_class |-> HTTPRequestor,
               event_type |-> event_type, timestamp_ns |-> ts, seq_num |-> seq_num,
               msg_size |-> MsgLen],
     msg |-> WholeMessage(seq_num + 1)]

SendTypes == {kEventTypeSyscallWriteEvent, kEventTypeSyscallSendEvent}
RecvTypes == {kEventTypeSyscallReadEvent, kEventTypeSyscallRecvEvent}

(***************************************************************************)
(* One ConnectionTracker driven through its methods.                       *)
(***************************************************************************)
\* The first MarkForDeath on an alive tracker is recorded; a later one
\* disturbs the record.
Marked(t, countdown) ==
    IF first_mark.countdown < 0 /\ t.death_countdown_ < 0
    THEN [countdown |-> countdown, ticks |-> 0, disturbed |-> FALSE]
    ELSE [first_mark EXCEPT !.disturbed = (first_mark.countdown >= 0)]

TrackerAddConnOpenEvent(conn_info) ==
    /\ tracker' = AddConnOpenEvent(tracker, conn_info, now)
    /\ dcheck_failed' = (\/ dcheck_failed
                         \/ ~SetTrafficClassChecks(tracker, conn_info.traffic_class)
                         \/ ~SetPIDChecks(tracker, conn_info.conn_id))
    /\ last_call' = [op |-> "AddConnOpenEvent", countdown |-> -1]
    /\ offered' = [conn_id |-> conn_info.conn_id, traffic_class |-> conn_info.traffic_class]
    /\ event_at' = now
    /\ last_tick' = NoTick
    /\ UNCHANGED <<now, ingested, first_mark, stream_vars, registry_vars, generation_vars>>

TrackerAddConnCloseEvent(conn_info) ==
    /\ tracker' = AddConnCloseEvent(tracker, conn_info, now)
    /\ dcheck_failed' = (dcheck_failed \/ ~SetPIDChecks(tracker, conn_info.conn_id))
    /\ ingested' = [ingested EXCEPT !.close = TRUE]
    /\ first_mark' = Marked(tracker, kDeathCountdownIters)
    /\ last_call' = [op |-> "AddConnCloseEvent", countdown |-> -1]
    /\ offered' = [NoOffer EXCEPT !.conn_id = conn_info.conn_id]
    /\ event_at' = now
    /\ last_tick' = NoTick
    /\ UNCHANGED <<now, stream_vars, registry_vars, generation_vars>>

\* The conn_id of the tests with one field changed ("none": with no change).
ConnIdFields == {"pid", "pid_start_time_ns", "fd", "generation"}

OtherConnId(field) ==
    IF field = "none" THEN TheConnId ELSE [TheConnId EXCEPT ![field] = @ + 1]

\* AddDataEvent with an event that carries the traffic class (protocol, role)
\* and the conn_id of the tests changed in field.
TrackerAddDataEventOf(event_type, seq_num, ts, protocol, role, field) ==
    LET event == [SocketDataEvent(event_type, seq_num, ts) EXCEPT
                    !.attr.traffic_class = [protocol |-> protocol, role |-> role],
                    !.attr.conn_id = OtherConnId(field)]
    IN
        /\ tracker.num_send_events_ + tracker.num_recv_events_ < MaxDataEvents
        /\ tracker' = AddDataEvent(tracker, event, now)
        /\ dcheck_failed' = (\/ dcheck_failed
                             \/ ~SetPIDChecks(tracker, event.attr.conn_id)
                             \/ ~SetTrafficClassChecks(tracker, event.attr.traffic_class))
        /\ ingested' =
             CASE event.attr.event_type \in SendTypes ->
                    [ingested EXCEPT !.send = @ \cup {event.attr.seq_num}]
               [] event.attr.event_type \in RecvTypes ->
                    [ingested EXCEPT !.recv = @ \cup {event.attr.seq_num}]
               [] OTHER -> ingested
        /\ last_call' = [op |-> "AddDataEvent", countdown |-> -1]
        /\ offered' = [conn_id |-> event.attr.conn_id,
                       traffic_class |-> event.attr.traffic_class]
        /\ event_at' = now
        /\ last_tick' = NoTick
        /\ UNCHANGED <<now, first_mark, stream_vars, registry_vars, generation_vars>>

TrackerAddDataEvent(event_type, seq_num, ts) ==
    TrackerAddDataEventOf(event_type, seq_num, ts, kProtocolHTTP, kRoleRequestor, "none")

TrackerMarkForDeath(countdown) ==
    /\ tracker' = MarkForDeath(tracker, countdown)
    /\ first_mark' = Marked(tracker, countdown)
    /\ last_call' = [op |-> "MarkForDeath", countdown |-> countdown]
    /\ offered' = NoOffer
    /\ last_tick' = NoTick
    /\ UNCHANGED <<now, dcheck_failed, ingested, event_at, stream_vars,
                   registry_vars, generation_vars>>

TrackerIterationTick(fd_exists) ==
    /\ tracker' = IterationTick(tracker, now, fd_exists)
    /\ first_mark' =
         IF first_mark.countdown < 0 THEN first_mark
         ELSE [first_mark EXCEPT
                 !.ticks = IF @ > kDeathCountdownIters THEN @ ELSE @ + 1,
                 !.disturbed = (@ \/ Inactive(tracker, now))]
    /\ last_call' = [op |-> "IterationTick", countdown |-> -1]
    /\ offered' = NoOffer
    /\ last_tick' = [before |-> tracker.death_countdown_,
                     inactive |-> Inactive(tracker, now),
                     fd_exists |-> fd_exists,
                     buffered |-> (\/ DOMAIN tracker.send_data_.events_ # {}
                                   \/ DOMAIN tracker.recv_data_.events_ # {})]
    /\ UNCHANGED <<now, dcheck_failed, ingested, event_at, stream_vars, registry_vars,
                   generation_vars>>

\* Time passes.
Sleep ==
    /\ now < MaxNow
    /\ now' = now + 1
    /\ UNCHANGED <<tracker, dcheck_failed, ingested, first_mark, last_call, last_tick,
                   event_at, offered, stream_vars, registry_vars, generation_vars>>

TrackerInit ==
    /\ StreamStart
    /\ payload = <<>>
    /\ TrackerStart
    /\ RegistryStart

\* Every method of the tracker, with one event of each kind per direction.
Next ==
    \/ TrackerAddConnOpenEvent(OpenConnInfo(1))
    \/ TrackerAddConnCloseEvent(CloseConnInfo(1, 1, 1))
    \/ \E event_type \in {kEventTypeSyscallSendEvent, kEventTypeSyscallRecvEvent} :
          TrackerAddDataEvent(event_type, 0, 1)
    \/ \E countdown \in 0..kDeathCountdownIters : TrackerMarkForDeath(countdown)
    \/ \E fd_exists \in BOOLEAN : TrackerIterationTick(fd_exists)
    \/ Sleep

Spec == TrackerInit /\ [][Next]_vars

\* The event-ingesting methods of the tracker, with data events of every
\* type and seq_num and close events announcing every count.
EventsNext ==
    \/ TrackerAddConnOpenEvent(OpenConnInfo(1))
    \/ \E ts \in 0..1, wr_seq_num, rd_seq_num \in 0..MaxSeqNum :
          TrackerAddConnCloseEvent(CloseConnInfo(ts, wr_seq_num, rd_seq_num))
    \/ \E event_type \in SendTypes \cup RecvTypes \cup {kEventTypeUnknown},
          seq_num \in 0..(MaxSeqNum - 1) :
          TrackerAddDataEvent(event_type, seq_num, 1)

SpecEvents == TrackerInit /\ [][EventsNext]_vars

\* Data events of every type and close events that differ, on a tracker
\* that is ticked between them.
FramesNext ==
    \/ TrackerAddConnOpenEvent(OpenConnInfo(1))
    \/ \E n \in 0..1 : TrackerAddConnCloseEvent(CloseConnInfo(n + 1, n, 1 - n))
    \/ \E event_type \in SendTypes \cup RecvTypes \cup {kEventTypeUnknown},
          seq_num \in 0..(MaxSeqNum - 1) :
          TrackerAddDataEvent(event_type, seq_num, 1)
    \/ TrackerIterationTick(TRUE)

SpecFrames == TrackerInit /\ [][FramesNext]_vars

\* The outcome of ParseSockAddr on the address of an open event: the
\* endpoint of one of two peers, or an address that is not parsed.
SockAddrs == {"first", "second", "unparsed"}

ParseSockAddr(sockaddr) ==
    CASE sockaddr = "first" -> [ok |-> TRUE, ip |-> "10.0.0.1", port |-> 80]
      [] sockaddr = "second" -> [ok |-> TRUE, ip |-> "10.0.0.2", port |-> 443]
      [] OTHER -> [ok |-> FALSE, ip |-> "", port |-> 0]

OpenAddConnOpenEvent(ts, sockaddr) ==
    LET conn_info == [OpenConnInfo(ts) EXCEPT !.addr = ParseSockAddr(sockaddr)]
    IN  TrackerAddConnOpenEvent(conn_info)

\* Open events of two timestamps and of every address, on a tracker that
\* also gets a data event, a close event and ticks.
OpenNext ==
    \/ \E ts \in 1..2, sockaddr \in SockAddrs : OpenAddConnOpenEvent(ts, sockaddr)
    \/ TrackerAddConnCloseEvent(CloseConnInfo(1, 1, 1))
    \/ TrackerAddDataEvent(kEventTypeSyscallSendEvent, 0, 1)
    \/ TrackerIterationTick(TRUE)

SpecOpen == TrackerInit /\ [][OpenNext]_vars

(***************************************************************************)
(* The tracker registry of the connector, for one connection: the tracker  *)
(* is created by the first event of the connection; TransferData extracts  *)
(* the messages of a tracker of known role, ticks it, and removes it when  *)
(* it is ready for destruction.                                            *)
(***************************************************************************)
\* The message type the emitter extracts for a protocol.
MessageTypeOf(protocol) == IF protocol = kProtocolHTTP2 THEN "Frame" ELSE "HTTPMessage"

\* The tracker an event of the connection is delivered to.
TrackerOf == IF registered THEN tracker ELSE NewConnectionTracker

\* The emitter's pass over a stream: ExtractMessages, then the queue is consumed.
Drain(ds, T) == [ExtractMessages(ds, T).ds EXCEPT !.messages_.deque = <<>>]

\* The emitter's pass over a tracker: both directions of a tracker whose role is known.
TransferStreams(t) ==
    IF req_data(t) = "nullptr"
    THEN t
    ELSE [t EXCEPT !.send_data_ = Drain(@, MessageTypeOf(t.traffic_class_.protocol)),
                   !.recv_data_ = Drain(@, MessageTypeOf(t.traffic_class_.protocol))]

\* A CHECK of ExtractMessages fails in the emitter's pass.
TransferAborts(t) ==
    /\ req_data(t) # "nullptr"
    /\ \/ ExtractMessages(t.send_data_, MessageTypeOf(t.traffic_class_.protocol)).aborted
       \/ ExtractMessages(t.recv_data_, MessageTypeOf(t.traffic_class_.protocol)).aborted

AcceptOpenConnEvent(conn_info) ==
    /\ ~aborted
    /\ tracker' = AddConnOpenEvent(TrackerOf, conn_info, now)
    /\ registered' = TRUE
    /\ since_close' = IF registered THEN since_close ELSE [ticks |-> -1, timed_out |-> FALSE]
    /\ UNCHANGED <<now, dcheck_failed, ingested, first_mark, last_call, last_tick, event_at,
                   offered, stream_vars, generation_vars>>

AcceptCloseConnEvent(conn_info) ==
    /\ ~aborted
    /\ tracker' = AddConnCloseEvent(TrackerOf, conn_info, now)
    /\ registered' = TRUE
    /\ since_close' = IF TrackerOf.death_countdown_ < 0
                      THEN [ticks |-> 0, timed_out |-> FALSE]
                      ELSE since_close
    /\ UNCHANGED <<now, dcheck_failed, ingested, first_mark, last_call, last_tick, event_at,
                   offered, stream_vars, generation_vars>>

AcceptDataEvent(event_type, seq_num, ts) ==
    LET event == SocketDataEvent(event_type, seq_num, ts)
    IN
        /\ ~aborted
        /\ TrackerOf.num_send_events_ + TrackerOf.num_recv_events_ < MaxDataEvents
        /\ tracker' = AddDataEvent(TrackerOf, event, now)
        /\ registered' = TRUE
        /\ since_close' = IF registered THEN since_close ELSE [ticks |-> -1, timed_out |-> FALSE]
        /\ UNCHANGED <<now, dcheck_failed, ingested, first_mark, last_call, last_tick, event_at,
                       offered, stream_vars, generation_vars>>

TransferData(fd_exists) ==
    /\ ~aborted
    /\ registered
    /\ aborted' = TransferAborts(tracker)
    /\ LET ticked == IterationTick(TransferStreams(tracker), now, fd_exists)
       IN  IF TransferAborts(tracker)
           THEN UNCHANGED <<tracker, registered, since_close>>
           ELSE /\ registered' = ~ReadyForDestruction(ticked)
                /\ tracker' = IF ReadyForDestruction(ticked) THEN NewConnectionTracker
                              ELSE ticked
                /\ since_close' =
                     IF since_close.ticks < 0 THEN since_close
                     ELSE [ticks |-> IF since_close.ticks > kDeathCountdownIters
                                     THEN since_close.ticks ELSE since_close.ticks + 1,
                           timed_out |-> (since_close.timed_out \/ Inactive(tracker, now))]
    /\ last_tick' = [before |-> tracker.death_countdown_,
                     inactive |-> Inactive(tracker, now),
                     fd_exists |-> fd_exists,
                     buffered |-> (\/ DOMAIN tracker.send_data_.events_ # {}
                                   \/ DOMAIN tracker.recv_data_.events_ # {})]
    /\ UNCHANGED <<now, dcheck_failed, ingested, first_mark, last_call, event_at, offered, stream,
                   payload, added, redelivered, was_reset, last_op, msgs, materialized,
                   generation_vars>>

RegistryNext ==
    \/ AcceptOpenConnEvent(OpenConnInfo(1))
    \/ \E n \in 0..MaxSeqNum : AcceptCloseConnEvent(CloseConnInfo(1, n, n))
    \/ \E event_type \in {kEventTypeSyscallSendEvent, kEventTypeSyscallRecvEvent},
          seq_num \in 0..(MaxSeqNum - 1) :
          AcceptDataEvent(event_type, seq_num, 1)
    \/ \E fd_exists \in BOOLEAN : TransferData(fd_exists)
    \/ Sleep

SpecRegistry == TrackerInit /\ [][RegistryNext]_vars

(***************************************************************************)
(* The tracker under events of every traffic class and of conn_ids that    *)
(* differ from the first one in one field.                                 *)
(***************************************************************************)
Protocols == {kProtocolUnknown, kProtocolHTTP, kProtocolHTTP2}

Roles == {kRoleUnknown, kRoleRequestor, kRoleResponder}

IdentityAddConnOpenEvent(protocol, role, field) ==
    LET conn_info == [OpenConnInfo(1) EXCEPT
                        !.traffic_class = [protocol |-> protocol, role |-> role],
                        !.conn_id = OtherConnId(field)]
    IN  TrackerAddConnOpenEvent(conn_info)

IdentityAddConnCloseEvent(field) ==
    LET conn_info == [CloseConnInfo(1, 1, 1) EXCEPT !.conn_id = OtherConnId(field)]
    IN  TrackerAddConnCloseEvent(conn_info)

\* Events of every traffic class, all with the first conn_id.
TrafficClassNext ==
    \/ \E protocol \in Protocols, role \in Roles :
          IdentityAddConnOpenEvent(protocol, role, "none")
    \/ IdentityAddConnCloseEvent("none")
    \/ \E protocol \in Protocols, role \in Roles :
          TrackerAddDataEventOf(kEventTypeSyscallSendEvent, 0, 1, protocol, role, "none")
    \/ \E fd_exists \in BOOLEAN : TrackerIterationTick(fd_exists)

SpecTrafficClass == TrackerInit /\ [][TrafficClassNext]_vars

\* Events of one traffic class, with the first conn_id or one that differs
\* from it in one field.
ConnIdNext ==
    \/ \E field \in ConnIdFields \cup {"none"} :
          IdentityAddConnOpenEvent(kProtocolHTTP, kRoleRequestor, field)
    \/ \E field \in ConnIdFields \cup {"none"} : IdentityAddConnCloseEvent(field)
    \/ \E field \in ConnIdFields \cup {"none"} :
          TrackerAddDataEventOf(kEventTypeSyscallSendEvent, 0, 1, kProtocolHTTP,
                                kRoleRequestor, field)
    \/ \E fd_exists \in BOOLEAN : TrackerIterationTick(fd_exists)

SpecConnId == TrackerInit /\ [][ConnIdNext]_vars

(***************************************************************************)
(* The tracker registry over the generations of one (pid, fd): events are  *)
(* dispatched by generation and create the tracker they find missing;      *)
(* TransferData passes over the trackers in generation order, extracts the *)
(* messages, ticks the tracker, marks it for death when a higher           *)
(* generation is present, and removes it when it is ready for destruction. *)
(* The calls and the counts are those of ConnectionCleanupOldGenerations.  *)
(***************************************************************************)
Generations == 1..MaxGeneration

\* The tracker an event of generation g is delivered to.
TrackerOfGeneration(g) == IF g \in present THEN trackers[g] ELSE NewConnectionTracker

\* A higher generation of the (pid, fd) has a tracker.
Outranked(g) == \E h \in present : h > g

\* An event creates the tracker of its generation when there is none.
Registered(g) ==
    /\ present' = present \cup {g}
    /\ outranked' = IF g \in present THEN outranked ELSE [outranked EXCEPT ![g] = -1]
    /\ buried' = IF g \in present THEN buried ELSE buried \ {g}

GenerationAcceptOpenConnEvent(g) ==
    LET conn_info == [OpenConnInfo(1) EXCEPT !.conn_id.generation = g]
    IN
        /\ ~aborted
        /\ trackers' = [trackers EXCEPT
                          ![g] = AddConnOpenEvent(TrackerOfGeneration(g), conn_info, now)]
        /\ Registered(g)
        /\ UNCHANGED <<stream_vars, tracker_vars, registry_vars>>

GenerationAcceptCloseConnEvent(g) ==
    LET conn_info == [CloseConnInfo(1, 1, 1) EXCEPT !.conn_id.generation = g]
    IN
        /\ ~aborted
        /\ trackers' = [trackers EXCEPT
                          ![g] = AddConnCloseEvent(TrackerOfGeneration(g), conn_info, now)]
        /\ Registered(g)
        /\ UNCHANGED <<stream_vars, tracker_vars, registry_vars>>

\* The first send event of generation g, delivered once to a tracker.
GenerationAcceptDataEvent(g) ==
    LET event == [SocketDataEvent(kEventTypeSyscallSendEvent, 0, 1)
                    EXCEPT !.attr.conn_id.generation = g]
    IN
        /\ ~aborted
        /\ TrackerOfGeneration(g).num_send_events_ = 0
        /\ trackers' = [trackers EXCEPT
                          ![g] = AddDataEvent(TrackerOfGeneration(g), event, now)]
        /\ Registered(g)
        /\ UNCHANGED <<stream_vars, tracker_vars, registry_vars>>

\* The pass of TransferData over the tracker of generation g.
Transferred(g) ==
    LET ticked == IterationTick(TransferStreams(trackers[g]), now, TRUE)
    IN  IF Outranked(g) THEN MarkForDeath(ticked, kDeathCountdownIters) ELSE ticked

GenerationTransferData ==
    /\ ~aborted
    /\ present # {}
    /\ aborted' = \E g \in present : TransferAborts(trackers[g])
    /\ IF \E g \in present : TransferAborts(trackers[g])
       THEN UNCHANGED generation_vars
       ELSE \E passed \in {[g \in present |-> Transferred(g)]},
               removed \in {{g \in present : ReadyForDestruction(Transferred(g))}} :
                /\ trackers' = [g \in Generations |->
                                  IF g \in present \ removed THEN passed[g]
                                  ELSE NewConnectionTracker]
                /\ present' = present \ removed
                /\ outranked' = [g \in Generations |->
                                   IF g \in present \ removed
                                   THEN IF outranked[g] >= 1 THEN outranked[g] + 1
                                        ELSE IF Outranked(g) THEN 1 ELSE -1
                                   ELSE -1]
                /\ buried' = buried \cup
                                {g \in removed : trackers[g].close_info_.timestamp_ns = 0}
    /\ UNCHANGED <<stream, payload, added, redelivered, was_reset, last_op, msgs,
                   materialized, tracker_vars, registry_vars>>

GenerationsNext ==
    \/ \E g \in Generations : GenerationAcceptOpenConnEvent(g)
    \/ \E g \in Generations : GenerationAcceptCloseConnEvent(g)
    \/ \E g \in Generations : GenerationAcceptDataEvent(g)
    \/ GenerationTransferData

SpecGenerations == TrackerInit /\ [][GenerationsNext]_vars

(***************************************************************************)
(* Properties of the ConnectionTracker.                                    *)
(***************************************************************************)
\* C6: once the close event and every send seq_num below close_info.send_seq_num
\* and every recv seq_num below close_info.recv_seq_num have been ingested,
\* AllEventsReceived() is true. Stated for close events with a timestamp and
\* for data events the close event announces, repeated or not.
C6_AllEventsReceivedOnceComplete ==
    (/\ ingested.close
     /\ tracker.close_info_.timestamp_ns # 0
     /\ ingested.send = 0..(tracker.close_info_.send_seq_num - 1)
     /\ ingested.recv = 0..(tracker.close_info_.recv_seq_num - 1))
    => AllEventsReceived(tracker)

\* Any IterationTick call on the tracker.
TickStep == \E fd_exists \in BOOLEAN : TrackerIterationTick(fd_exists)

\* C7: MarkForDeath(K) at death_countdown j >= 0 leaves min(j, K); at a
\* negative death_countdown it leaves K.
C7_MarkForDeathTakesMinimum ==
    [][\A K \in 0..kDeathCountdownIters :
         TrackerMarkForDeath(K) =>
            tracker'.death_countdown_ =
               IF tracker.death_countdown_ < 0 THEN K
               ELSE IF tracker.death_countdown_ < K THEN tracker.death_countdown_ ELSE K]_vars

\* C7 witness: MarkForDeath(K) was called on a zombie whose countdown was
\* below K, and the countdown stayed below K.
C7_Witness ==
    /\ last_call.op = "MarkForDeath"
    /\ tracker.death_countdown_ >= 0
    /\ tracker.death_countdown_ < last_call.countdown

\* C8 as stated: after MarkForDeath(K) on an alive tracker, with no further
\* mark and no inactivity handling, ReadyForDestruction() is false for the
\* first K ticks and true from tick K+1 on. Stated for K >= 1.
C8_ReadyAfterKPlusOneTicks ==
    (first_mark.countdown >= 1 /\ ~first_mark.disturbed)
    => (ReadyForDestruction(tracker) <=> first_mark.ticks >= first_mark.countdown + 1)

\* C8 amended: ReadyForDestruction() is false before tick K and true from
\* tick K on (at once when K = 0).
C8_ReadyAfterKTicks ==
    (first_mark.countdown >= 0 /\ ~first_mark.disturbed)
    => (ReadyForDestruction(tracker) <=> first_mark.ticks >= first_mark.countdown)

\* C8 witness: the K-th tick after a MarkForDeath(K), K > 0, on an alive
\* tracker has just made it ready for destruction.
C8_Witness ==
    /\ first_mark.countdown > 0
    /\ ~first_mark.disturbed
    /\ first_mark.ticks = first_mark.countdown
    /\ last_call.op = "IterationTick"
    /\ ReadyForDestruction(tracker)

\* C9: after a close event reached an alive tracker, and without an
\* inactivity timeout, the tracker is in the registry after each of the
\* first kDeathCountdownIters - 1 TransferData calls and removed by the
\* kDeathCountdownIters-th, whatever data events came and when.
C9_RemovedByLastCountdownTick ==
    (since_close.ticks >= 0 /\ ~since_close.timed_out)
    => (registered <=> since_close.ticks < kDeathCountdownIters)

\* C9 witness: the tracker was removed by the kDeathCountdownIters-th
\* TransferData after the close event.
C9_Witness ==
    /\ since_close.ticks = kDeathCountdownIters
    /\ ~since_close.timed_out
    /\ ~registered

\* C10: a zombie stays a zombie, no call raises its death_countdown, and
\* every IterationTick lowers a positive death_countdown, so that
\* ReadyForDestruction() holds after at most death_countdown ticks.
C10_ZombieCountdownOnlyFalls ==
    [][tracker.death_countdown_ >= 0 =>
         /\ tracker'.death_countdown_ >= 0
         /\ tracker'.death_countdown_ <= tracker.death_countdown_
         /\ (TickStep /\ tracker.death_countdown_ > 0)
               => tracker'.death_countdown_ < tracker.death_countdown_]_vars

\* C10 witness: a close event reached a zombie whose countdown was already
\* below kDeathCountdownIters, with data events still missing, and did not
\* raise it.
C10_Witness ==
    /\ last_call.op = "AddConnCloseEvent"
    /\ tracker.death_countdown_ >= 0
    /\ tracker.death_countdown_ < kDeathCountdownIters
    /\ ~AllEventsReceived(tracker)

\* C11: an IterationTick on a tracker whose fd file does not exist and whose
\* last update is older than InactivityDuration leaves death_countdown 0,
\* from a negative countdown and from any positive one.
C11_InactiveDeadTickZeroesCountdown ==
    [][(TrackerIterationTick(FALSE) /\ Inactive(tracker, now))
         => tracker'.death_countdown_ = 0]_vars

\* C11 witness: such a tick came at a countdown above 1 and left 0.
C11_Witness ==
    /\ last_call.op = "IterationTick"
    /\ last_tick.inactive
    /\ ~last_tick.fd_exists
    /\ last_tick.before > 1
    /\ tracker.death_countdown_ = 0

\* C12: a registered tracker that never had a close event, whose fd file does
\* not exist and whose last update is older than InactivityDuration, is
\* removed from the registry by the next TransferData call.
C12_InactiveDeadRemovedByOneTransfer ==
    [][(/\ TransferData(FALSE)
        /\ tracker.close_info_.timestamp_ns = 0
        /\ Inactive(tracker, now)
        /\ ~aborted')
       => (registered /\ ~registered')]_vars

\* C12 witness: a TransferData call found an alive tracker inactive with its
\* fd file gone, and the tracker is no longer registered.
C12_Witness ==
    /\ ~registered
    /\ last_tick.inactive
    /\ ~last_tick.fd_exists
    /\ last_tick.before < 0

\* What identifies and describes the connection, and the event counters.
ConnFields(t) ==
    <<t.conn_id_, t.traffic_class_, t.open_info_, t.close_info_, t.num_send_events_,
      t.num_recv_events_>>

\* A stream as Reset leaves it: no events, no parsed queue, offset 0.
Flushed(ds) ==
    /\ DOMAIN ds.events_ = {}
    /\ ds.messages_.deque = <<>>
    /\ ds.offset_ = 0
    /\ \A T \in MessageTypes : Empty(ds, T)

\* C13 as stated: an inactivity tick on a tracker whose fd file exists resets
\* both data streams and changes nothing else: death_countdown, conn_id,
\* traffic_class, open_info, close_info and the event counters are as before
\* and the tracker is not ready for destruction (it stays in the registry).
C13_InactiveAliveTickOnlyFlushes ==
    [][(TrackerIterationTick(TRUE) /\ Inactive(tracker, now))
         => /\ Flushed(tracker'.send_data_)
            /\ Flushed(tracker'.recv_data_)
            /\ ConnFields(tracker') = ConnFields(tracker)
            /\ tracker'.death_countdown_ = tracker.death_countdown_
            /\ ~ReadyForDestruction(tracker')]_vars

\* C13 amended: the tick resets both data streams and leaves conn_id,
\* traffic_class, open_info, close_info and the event counters as they were;
\* death_countdown is unchanged unless it was positive, in which case it is
\* one lower; a tracker that was not a zombie is not ready for destruction.
C13_InactiveAliveTickFlushesAndCountsDown ==
    [][(TrackerIterationTick(TRUE) /\ Inactive(tracker, now))
         => /\ Flushed(tracker'.send_data_)
            /\ Flushed(tracker'.recv_data_)
            /\ ConnFields(tracker') = ConnFields(tracker)
            /\ tracker'.death_countdown_ =
                  IF tracker.death_countdown_ > 0 THEN tracker.death_countdown_ - 1
                  ELSE tracker.death_countdown_
            /\ ~IsZombie(tracker) => ~ReadyForDestruction(tracker')]_vars

\* C13 witness: an inactivity tick with the fd file present came to an alive
\* tracker that held events, and both streams are empty.
C13_Witness ==
    /\ last_call.op = "IterationTick"
    /\ last_tick.inactive
    /\ last_tick.fd_exists
    /\ last_tick.buffered
    /\ last_tick.before < 0
    /\ Flushed(tracker.send_data_)
    /\ Flushed(tracker.recv_data_)

\* C14: while no more than InactivityDuration has passed since the tracker
\* last ingested an open, data or close event, an IterationTick leaves both
\* data streams as they were, and leaves a tracker that is not a zombie
\* unchanged: death_countdown negative, not ready for destruction.
C14_NoInactivityWithinDuration ==
    [][(/\ TickStep
        /\ event_at >= 0
        /\ now <= event_at + InactivityDuration)
       => /\ tracker'.send_data_ = tracker.send_data_
          /\ tracker'.recv_data_ = tracker.recv_data_
          /\ ~IsZombie(tracker) => /\ tracker' = tracker
                                   /\ tracker'.death_countdown_ < 0
                                   /\ ~ReadyForDestruction(tracker')]_vars

\* C14 witness: an event came when the clock was already more than
\* InactivityDuration past the construction of the tracker, and a tick that
\* followed within InactivityDuration left the tracker alive with its events.
C14_Witness ==
    /\ last_call.op = "IterationTick"
    /\ ~last_tick.inactive
    /\ last_tick.buffered
    /\ last_tick.before < 0
    /\ event_at > InactivityDuration
    /\ ~IsZombie(tracker)
    /\ \/ DOMAIN tracker.send_data_.events_ # {}
       \/ DOMAIN tracker.recv_data_.events_ # {}

\* C15: a tracker whose generation is below another one present in the
\* registry is a zombie with a countdown of at most kDeathCountdownIters after
\* the first TransferData call that finds it so, the countdown falls with
\* every further call, and the tracker is gone after kDeathCountdownIters
\* more, with or without a close event and whatever the order of the events
\* of the generations.
C15_OldGenerationsDie ==
    \A g \in Generations :
        outranked[g] >= 1 =>
            /\ g \in present
            /\ trackers[g].death_countdown_ > 0
            /\ trackers[g].death_countdown_ <= kDeathCountdownIters - outranked[g] + 1

\* C15 witness: the tracker of a lower generation was removed without a
\* close event while a higher generation is still tracked.
C15_Witness ==
    \E g \in buried : g \notin present /\ Outranked(g)

\* The stored traffic class has a protocol and a role.
ClassSet(t) ==
    /\ t.traffic_class_.protocol # kProtocolUnknown
    /\ t.traffic_class_.role # kRoleUnknown

\* C16: once the stored traffic_class has a non-Unknown protocol and a
\* non-Unknown role, no AddConnOpenEvent, AddDataEvent, AddConnCloseEvent or
\* IterationTick changes it, whatever class the event carries.
C16_TrafficClassImmutableOnceSet ==
    [][ClassSet(tracker) => tracker'.traffic_class_ = tracker.traffic_class_]_vars

\* An open or data event offered another class with a protocol to a tracker
\* whose class was set, and the stored class is still the first one.
C16_Witness ==
    /\ last_call.op \in {"AddConnOpenEvent", "AddDataEvent"}
    /\ ClassSet(tracker)
    /\ offered.traffic_class.protocol # kProtocolUnknown
    /\ offered.traffic_class.protocol # tracker.traffic_class_.protocol
    /\ offered.traffic_class.role # tracker.traffic_class_.role

\* C17: in every reachable state of a tracker, whatever traffic classes its
\* open and data events carried, the stored protocol is Unknown exactly when
\* the stored role is Unknown.
C17_ProtocolUnknownIffRoleUnknown ==
    (tracker.traffic_class_.protocol = kProtocolUnknown)
        <=> (tracker.traffic_class_.role = kRoleUnknown)

\* The step is an event whose conn_id differs from the stored one in field,
\* which the tracker holds as non-zero.
ConnIdConflict(field) ==
    /\ last_call'.op \in {"AddConnOpenEvent", "AddConnCloseEvent", "AddDataEvent"}
    /\ tracker.conn_id_[field] # 0
    /\ offered'.conn_id[field] # tracker.conn_id_[field]

\* C18: an open, close or data event whose conn_id differs from the stored
\* conn_id in a field the tracker holds as non-zero is flagged, and the stored
\* conn_id keeps its previous value for that field.
C18_ConflictingConnIdFlaggedAndKept ==
    [][\A field \in ConnIdFields :
          ConnIdConflict(field) =>
              /\ dcheck_failed'
              /\ tracker'.conn_id_[field] = tracker.conn_id_[field]]_vars

(***************************************************************************)
(* Properties of the DataStream (checked under SpecStream).                *)
(***************************************************************************)
\* Any ExtractMessages<T> call on the stream.
ExtractStep == \E T \in MessageTypes : StreamExtractMessages(T)

\* The messages parsed from the events' bytes concatenated in seq_num order.
ExpectedMessages ==
    Parse(Combine([i \in 1..Cardinality(DOMAIN payload) |-> payload[i - 1]]), 0, <<>>).messages

\* The seq_num of the event in which message m starts.
StartSeqNum(m) == CHOOSE q \in DOMAIN payload : \E i \in 1..Len(payload[q]) : payload[q][i] = <<m, 1>>

\* The seq_nums of the events that hold a byte of message m.
SeqNumsOf(m) == {q \in DOMAIN payload : \E i \in 1..Len(payload[q]) : payload[q][i][1] = m}

\* The longest run of consecutive seq_nums from the lowest buffered one.
ContiguousRun(events) ==
    {k \in DOMAIN events : \A j \in Min(DOMAIN events)..k : j \in DOMAIN events}

\* C1: with every event of the direction added exactly once, in any order and
\* with ExtractMessages calls in between, an ExtractMessages call made when
\* all events have been added leaves the queue equal to the messages of the
\* bytes in seq_num order: none lost, none duplicated.
C1_AllMessagesOnceInOrder ==
    [][(/\ ExtractStep
        /\ added = DOMAIN payload
        /\ ~redelivered
        /\ ~was_reset
        /\ ~aborted')
       => stream'.messages_.deque = ExpectedMessages]_vars

\* C2: ExtractMessages submits exactly the longest run of consecutive
\* seq_nums from the lowest buffered one; every event at or after the first
\* gap stays in the map unchanged and no appended message holds a byte of it.
C2_OnlyContiguousRunSubmitted ==
    [][ExtractStep =>
        LET run == ContiguousRun(stream.events_)
            old == Len(stream.messages_.deque)
            new == stream'.messages_.deque
        IN  /\ Len(msgs') = Cardinality(run)
            /\ \A i \in 1..Len(msgs') : msgs'[i] = Min(run) + i - 1
            /\ \A k \in (DOMAIN stream.events_) \ run :
                  /\ k \in DOMAIN stream'.events_
                  /\ stream'.events_[k] = stream.events_[k]
            /\ Len(new) >= old
            /\ \A i \in (old + 1)..Len(new) : SeqNumsOf(new[i]) \subseteq run]_vars

\* C2 witness: ExtractMessages ran with a gap in the map: it submitted a
\* run, parsed a message from it, and an event beyond the gap is still held.
C2_Witness ==
    /\ last_op = "ExtractMessages"
    /\ ~aborted
    /\ msgs # <<>>
    /\ stream.messages_.deque # <<>>
    /\ \E k \in DOMAIN stream.events_ : k > msgs[Len(msgs)] + 1

\* C3: the messages of the queue are in seq_num order of the events they
\* start in, whatever the order of the AddEvent and ExtractMessages calls.
C3_QueueInSeqNumOrder ==
    (~redelivered /\ ~was_reset) =>
        \A i, j \in 1..Len(stream.messages_.deque) :
            i < j => StartSeqNum(stream.messages_.deque[i]) <= StartSeqNum(stream.messages_.deque[j])

\* C4: an ExtractMessages<T> call that directly follows another one leaves
\* the queue, the events map and offset as the first call left them.
C4_ExtractIdempotent ==
    [][(/\ last_op = "ExtractMessages"
        /\ ExtractStep
        /\ ~aborted')
       => stream' = stream]_vars

\* C5: a stream never holds queues of two message types during its life: once
\* ExtractMessages<T'> was called, ExtractMessages<T> with another T fails.
C5_OneMessageTypePerStream == Cardinality(materialized) <= 1

\* C19: DataStream::AddEvent with a seq_num that the events map holds leaves
\* the map as it was: the first event of the seq_num stays, the new one is
\* dropped.
C19_AddEventKeepsFirstSeen ==
    [][\A q \in DOMAIN stream.events_ :
          StreamAddEvent(q) => stream'.events_ = stream.events_]_vars

\* A seq_num was delivered again, with a later timestamp, while the map held
\* every delivered event (nothing was extracted or reset), and the map holds
\* the events of the first timestamp.
C19_Witness ==
    /\ redelivered
    /\ last_op = "AddEvent"
    /\ materialized = {} /\ ~was_reset
    /\ DOMAIN stream.events_ = added
    /\ \A q \in added : stream.events_[q].attr.timestamp_ns = 1

\* C20: req_data and resp_data follow the stored role: the requestor's
\* requests are send_data_ and its responses recv_data_, the responder's
\* requests are recv_data_ and its responses send_data_, and both are null
\* for the unknown role; when they are not null they are different streams.
C20_ReqRespDataByRole ==
    /\ tracker.traffic_class_.role = kRoleRequestor
          => req_data(tracker) = "send_data_" /\ resp_data(tracker) = "recv_data_"
    /\ tracker.traffic_class_.role = kRoleResponder
          => req_data(tracker) = "recv_data_" /\ resp_data(tracker) = "send_data_"
    /\ tracker.traffic_class_.role = kRoleUnknown
          => req_data(tracker) = "nullptr" /\ resp_data(tracker) = "nullptr"
    /\ (req_data(tracker) # "nullptr" \/ resp_data(tracker) # "nullptr")
          => req_data(tracker) # resp_data(tracker)

\* A tracker that a data event made a responder: its req_data is recv_data_
\* and its resp_data is send_data_.
C20_Witness ==
    /\ tracker.traffic_class_.role = kRoleResponder
    /\ last_call.op = "AddDataEvent"
    /\ req_data(tracker) = "recv_data_"
    /\ resp_data(tracker) = "send_data_"

\* C21: in every reachable state of a DataStream, for events that arrive in
\* any seq_num order, a non-zero offset_ means that the events map is not
\* empty and that offset_ is smaller than the msg_size of the buffered event
\* with the lowest seq_num, so that the CHECK at the start of ExtractMessages
\* holds. Stated for streams to which no seq_num was delivered twice.
C21_OffsetWithinFirstEvent ==
    (~redelivered /\ stream.offset_ # 0) =>
        /\ DOMAIN stream.events_ # {}
        /\ stream.offset_ < stream.events_[Min(DOMAIN stream.events_)].attr.msg_size

\* The events ExtractMessages erased from the stream so far, when no seq_num
\* was delivered twice and the stream was not reset: the delivered events
\* that the map no longer holds.
ErasedSoFar == added \ DOMAIN stream.events_

\* C22: in every reachable state of a DataStream, for any order of AddEvent
\* calls and any interleaving of ExtractMessages calls, every event in the
\* events map has a seq_num that is at least the number of events erased
\* from the stream so far.
C22_BufferedSeqNumsNotBelowErased ==
    (~redelivered /\ ~was_reset) =>
        \A k \in DOMAIN stream.events_ : k >= Cardinality(ErasedSoFar)

\* The step is an ExtractMessages call whose parser consumed every event
\* submitted to it, the first buffered one included.
ConsumedAllSubmitted ==
    /\ last_op' = "ExtractMessages"
    /\ ~aborted'
    /\ msgs' # <<>>
    /\ \A i \in 1..Len(msgs') : msgs'[i] \notin DOMAIN stream'.events_

\* C23: offset_ is 0 whenever the events map is empty and whenever
\* ExtractMessages has consumed the first buffered event, and the events after
\* it, to the end.
C23_OffsetZeroWhenEmptyOrConsumed ==
    [][(DOMAIN stream'.events_ = {} \/ ConsumedAllSubmitted) => stream'.offset_ = 0]_vars

\* ExtractMessages was given several events and consumed them to the end:
\* none of them is buffered, their messages are in the queue and offset_ is 0.
C23_Witness ==
    /\ last_op = "ExtractMessages"
    /\ ~aborted
    /\ Len(msgs) >= 2
    /\ \A i \in 1..Len(msgs) : msgs[i] \notin DOMAIN stream.events_
    /\ stream.messages_.deque # <<>>
    /\ stream.offset_ = 0

EndPosition(ds) ==
    LET submitted == SubmittedSeqNums(ds.events_)
    IN  ParseMessages([i \in 1..Len(submitted) |-> View(ds, submitted[i])]).end_position

\* The call made no progress and the returned offset is not the offset_ of
\* before the call.
NoProgressAnomaly(ds) ==
    /\ DOMAIN ds.events_ # {}
    /\ EndPosition(ds).seq_num = 0
    /\ EndPosition(ds).offset # ds.offset_

\* C25: an ExtractMessages call in which the parser ends at event index 0
\* with a byte offset that differs from offset_ before the call leaves the
\* events map and offset_ as they were before the call (the consistency check
\* sees the anomaly). Stated for calls on a stream whose first event was
\* consumed in part, so that offset_ is not 0 before the call, and that add no
\* message to the queue.
C25_NoProgressKeepsState ==
    [][(/\ last_op' = "ExtractMessages"
        /\ stream.offset_ # 0
        /\ stream'.messages_.deque = stream.messages_.deque
        /\ NoProgressAnomaly(stream))
       => /\ stream'.events_ = stream.events_
          /\ stream'.offset_ = stream.offset_]_vars

\* The step is an open or data event that carries a protocol or a role which
\* is not Unknown and is not the one the tracker has set.
TrafficClassConflict ==
    /\ last_call'.op \in {"AddConnOpenEvent", "AddDataEvent"}
    /\ ClassSet(tracker)
    /\ \/ /\ offered'.traffic_class.protocol # kProtocolUnknown
          /\ offered'.traffic_class.protocol # tracker.traffic_class_.protocol
       \/ /\ offered'.traffic_class.role # kRoleUnknown
          /\ offered'.traffic_class.role # tracker.traffic_class_.role

\* C26: an open or data event whose traffic class has a non-Unknown protocol
\* or role that differs from the non-Unknown protocol or role the tracker has
\* set makes a check of SetTrafficClass fail.
C26_ConflictingTrafficClassDetected ==
    [][(~dcheck_failed /\ TrafficClassConflict) => dcheck_failed']_vars

\* C27: AllEventsReceived() is true exactly when a close event was ingested,
\* whatever its timestamp_ns, and the counters of send and recv events equal
\* the seq_nums of the close event; before a close event it is false.
C27_AllEventsReceivedIffCloseAndCounts ==
    AllEventsReceived(tracker)
        <=> /\ ingested.close
            /\ tracker.num_send_events_ = tracker.close_info_.send_seq_num
            /\ tracker.num_recv_events_ = tracker.close_info_.recv_seq_num

\* C28: whenever AllEventsReceived() is true, every seq_num below
\* close_info_.send_seq_num was ingested as a send event and every seq_num
\* below close_info_.recv_seq_num as a recv event, repeated seq_nums allowed.
C28_AllEventsReceivedMeansNoneMissing ==
    AllEventsReceived(tracker) =>
        /\ \A q \in 0..(tracker.close_info_.send_seq_num - 1) : q \in ingested.send
        /\ \A q \in 0..(tracker.close_info_.recv_seq_num - 1) : q \in ingested.recv

\* The events map after seq_num was offered to it: the keys it had, with
\* their events, and seq_num.
Inserted(before, after, seq_num) ==
    /\ DOMAIN after = (DOMAIN before) \cup {seq_num}
    /\ \A k \in DOMAIN before : after[k] = before[k]
    /\ after[seq_num].attr.seq_num = seq_num

\* C29: AddDataEvent with a write or send event inserts into send_data_ and
\* increments num_send_events_ only; with a read or recv event it inserts
\* into recv_data_ and increments num_recv_events_ only; with another event
\* type no stream and no counter changes. death_countdown_, open_info_ and
\* close_info_ are unchanged in the three cases.
C29_AddDataEventDispatch ==
    [][\A event_type \in SendTypes \cup RecvTypes \cup {kEventTypeUnknown},
          q \in 0..(MaxSeqNum - 1) :
          (last_call'.op = "AddDataEvent" /\ TrackerAddDataEvent(event_type, q, 1)) =>
            /\ tracker'.death_countdown_ = tracker.death_countdown_
            /\ tracker'.open_info_ = tracker.open_info_
            /\ tracker'.close_info_ = tracker.close_info_
            /\ event_type \in SendTypes =>
                  /\ Inserted(tracker.send_data_.events_, tracker'.send_data_.events_, q)
                  /\ tracker'.num_send_events_ = tracker.num_send_events_ + 1
                  /\ tracker'.recv_data_ = tracker.recv_data_
                  /\ tracker'.num_recv_events_ = tracker.num_recv_events_
            /\ event_type \in RecvTypes =>
                  /\ Inserted(tracker.recv_data_.events_, tracker'.recv_data_.events_, q)
                  /\ tracker'.num_recv_events_ = tracker.num_recv_events_ + 1
                  /\ tracker'.send_data_ = tracker.send_data_
                  /\ tracker'.num_send_events_ = tracker.num_send_events_
            /\ event_type = kEventTypeUnknown =>
                  /\ tracker'.send_data_ = tracker.send_data_
                  /\ tracker'.recv_data_ = tracker.recv_data_
                  /\ tracker'.num_send_events_ = tracker.num_send_events_
                  /\ tracker'.num_recv_events_ = tracker.num_recv_events_]_vars

\* A zombie that was given a send event and then a recv event: one event in
\* each stream, one count in each counter, the countdown of the close event.
C29_Witness ==
    /\ last_call.op = "AddDataEvent"
    /\ tracker.death_countdown_ = kDeathCountdownIters
    /\ tracker.num_send_events_ = 1
    /\ tracker.num_recv_events_ = 1
    /\ Cardinality(DOMAIN tracker.send_data_.events_) = 1
    /\ Cardinality(DOMAIN tracker.recv_data_.events_) = 1

\* C30: AddConnCloseEvent leaves in close_info_ the timestamp, wr_seq_num and
\* rd_seq_num of its event, also when the tracker had a close event before;
\* it leaves death_countdown_ at kDeathCountdownIters on an alive tracker and
\* does not raise it on a zombie; traffic_class_, open_info_, the two data
\* streams and the event counters are unchanged.
C30_CloseEventFrame ==
    [][\A n \in 0..1 :
          (/\ last_call'.op = "AddConnCloseEvent"
           /\ TrackerAddConnCloseEvent(CloseConnInfo(n + 1, n, 1 - n))) =>
            /\ tracker'.close_info_ = [timestamp_ns |-> n + 1,
                                       send_seq_num |-> n,
                                       recv_seq_num |-> 1 - n]
            /\ ~IsZombie(tracker) => tracker'.death_countdown_ = kDeathCountdownIters
            /\ IsZombie(tracker) =>
                  tracker'.death_countdown_ = Min({tracker.death_countdown_, kDeathCountdownIters})
            /\ tracker'.traffic_class_ = tracker.traffic_class_
            /\ tracker'.open_info_ = tracker.open_info_
            /\ tracker'.send_data_ = tracker.send_data_
            /\ tracker'.recv_data_ = tracker.recv_data_
            /\ tracker'.num_send_events_ = tracker.num_send_events_
            /\ tracker'.num_recv_events_ = tracker.num_recv_events_]_vars

\* The close event of timestamp 1 came to a zombie whose countdown the ticks
\* had lowered and whose close event had timestamp 2 (the only event of that
\* timestamp): the countdown is still below kDeathCountdownIters and
\* close_info_ is the last event's.
C30_Witness ==
    /\ last_call.op = "AddConnCloseEvent"
    /\ tracker.death_countdown_ \in 0..(kDeathCountdownIters - 1)
    /\ tracker.last_bpf_timestamp_ns_ = 2
    /\ tracker.close_info_ = [timestamp_ns |-> 1, send_seq_num |-> 0, recv_seq_num |-> 1]
    /\ tracker.num_send_events_ > 0

\* C31: after an AddConnOpenEvent, also a second one and one on a zombie,
\* the timestamp_ns, remote_addr and remote_port of open_info_ all come from
\* that open event: the timestamp is the event's, and the endpoint is the
\* event's when its address is parsed and is no endpoint of an earlier open
\* event when it is not.
C31_OpenInfoFromLastOpenEvent ==
    [][\A ts \in 1..2, sockaddr \in SockAddrs :
          (/\ last_call'.op = "AddConnOpenEvent"
           /\ OpenAddConnOpenEvent(ts, sockaddr)) =>
            /\ tracker'.open_info_.timestamp_ns = ts
            /\ ParseSockAddr(sockaddr).ok =>
                  /\ tracker'.open_info_.remote_addr = ParseSockAddr(sockaddr).ip
                  /\ tracker'.open_info_.remote_port = ParseSockAddr(sockaddr).port
            /\ ~ParseSockAddr(sockaddr).ok =>
                  /\ tracker'.open_info_.remote_addr = NewConnectionTracker.open_info_.remote_addr
                  /\ tracker'.open_info_.remote_port = NewConnectionTracker.open_info_.remote_port]_vars

====
